---------------------------- MODULE Spec2Model ----------------------------
(***************************************************************************)
(* A model of the ICESat-2 ATL03 reader (src/src/reader.py) and of the     *)
(* spatial-extent helper (src/src/plotting.py).                            *)
(*                                                                         *)
(* Strings are sequences of tokens: a token is a word, or one of the two   *)
(* separators "/" and "_".  "gt1l/heights/h_ph" is                         *)
(* <<"gt1l", "/", "heights", "/", "h", "_", "ph">>.  split, join, the      *)
(* f-strings and the substring test of the code are sequence operations on *)
(* these.  None and "" (both falsy for `if prefix:`) are the empty string. *)
(***************************************************************************)
EXTENDS Integers, Sequences, FiniteSets, TLC

VARIABLES heap, call, pc, locals, f, io, df, df_seg, ret, stdout

vars == <<heap, call, pc, locals, f, io, df, df_seg, ret, stdout>>

(***************************************************************************)
(* Bounds of the model.                                                    *)
(***************************************************************************)
MaxCols == 6
MaxLen == 2
MaxPolys == 2
MaxPts == 4

----------------------------------------------------------------------------
(* String helpers                                                          *)

SLASH == "/"
US == "_"

\* var.split("/")[-1]: what follows the last "/" (the whole string without one)
Basename(var) ==
    LET idx == {i \in 1..Len(var) : var[i] = SLASH}
        last == IF idx = {} THEN 0 ELSE CHOOSE i \in idx : \A j \in idx : j <= i
    IN SubSeq(var, last + 1, Len(var))

\* "_".join([a, b])
JoinUS(a, b) == a \o <<US>> \o b

\* f"{name}_{suffix}"
Suffixed(name, suffix) == name \o <<US>> \o suffix

\* Python's `sub in s` on strings
Contains(sub, s) ==
    \E i \in 1..(Len(s) - Len(sub) + 1) : SubSeq(s, i, i + Len(sub) - 1) = sub

\* f"{beam}/{var}"
Qualify(beam, var) == beam \o <<SLASH>> \o var

\* [f"{beam}/{var}" for var in lst]
QualifyAll(beam, lst) == [i \in 1..Len(lst) |-> Qualify(beam, lst[i])]

\* the literal "signal_conf_ph" of line 56
SignalConfPh == <<"signal", US, "conf", US, "ph">>

\* str(i) for a column index
Digits(i) == <<ToString(i)>>

----------------------------------------------------------------------------
(* Module-level lists of reader.py                                         *)

HeightVars ==
    << <<"heights", SLASH, "h", US, "ph">>,
       <<"heights", SLASH, "delta", US, "time">>,
       <<"heights", SLASH, "lat", US, "ph">>,
       <<"heights", SLASH, "lon", US, "ph">>,
       <<"heights", SLASH, "quality", US, "ph">>,
       <<"heights", SLASH, "signal", US, "conf", US, "ph">>,
       <<"heights", SLASH, "dist", US, "ph", US, "along">>,
       <<"heights", SLASH, "dist", US, "ph", US, "across">> >>

GeolocationVars ==
    << <<"geolocation", SLASH, "ph", US, "index", US, "beg">>,
       <<"geolocation", SLASH, "segment", US, "ph", US, "cnt">>,
       <<"geolocation", SLASH, "segment", US, "dist", US, "x">> >>

GeophysicalCorrectionVars ==
    << <<"geophys", US, "corr", SLASH, "tide", US, "ocean">>,
       <<"geophys", US, "corr", SLASH, "tide", US, "equilibrium">>,
       <<"geophys", US, "corr", SLASH, "dem", US, "h">> >>

Surfaces ==
    << <<"land">>, <<"ocean">>, <<"sea", US, "ice">>, <<"land", US, "ice">>,
       <<"inland", US, "water">> >>


----------------------------------------------------------------------------
(* The granule file behind the h5py handle: which datasets it holds and    *)
(* their shapes.  Every dataset of the heights group has nPhotons rows,    *)
(* the others have nSegments rows; signal_conf_ph and velocity_sc are      *)
(* 2-dimensional, with confCols and vecCols columns.                       *)

VelocitySc == <<"geolocation", SLASH, "velocity", US, "sc">>
NoSuchVar == <<"heights", SLASH, "no", US, "such">>

KnownVars == HeightVars \o GeolocationVars \o GeophysicalCorrectionVars \o <<VelocitySc>>

BeamSeq == << <<"gt1l">>, <<"gt2r">> >>

Range(s) == {s[i] : i \in 1..Len(s)}

IndexOf(s, x) == CHOOSE i \in 1..Len(s) : s[i] = x

\* a lookup that finds every known path, whether the file holds it or not
HasDatasetIgnoringMissing(file, path) ==
    \E b \in Range(BeamSeq), v \in Range(KnownVars) : path = Qualify(b, v)

\* `var in f`: the path names a dataset of the file
HasDataset(file, path) ==
    \E b \in Range(BeamSeq), v \in Range(KnownVars) :
        path = Qualify(b, v) /\ v \notin file.missing

PathBeam(path) == CHOOSE b \in Range(BeamSeq) : \E v \in Range(KnownVars) : path = Qualify(b, v)
PathVar(path) == CHOOSE v \in Range(KnownVars) : \E b \in Range(BeamSeq) : path = Qualify(b, v)

\* the numbers of a dataset are its own: row r, column c (0 for a 1-D dataset) of
\* the dataset at a path holds CellBase(path) + 10 r + c
CellBase(path) ==
    IndexOf(BeamSeq, PathBeam(path)) * 10000 + IndexOf(KnownVars, PathVar(path)) * 100

NRows(file, path) ==
    IF PathVar(path) \in Range(HeightVars) THEN file.nPhotons ELSE file.nSegments

NCols(file, path) ==
    IF Basename(path) = SignalConfPh THEN file.confCols
    ELSE IF PathVar(path) = VelocitySc THEN file.vecCols
    ELSE 0

\* f[var][:]: the array at a path; shape is (L,) or (L, N)
Dataset(file, path) ==
    LET base == CellBase(path)
        L == NRows(file, path)
        N == NCols(file, path)
    IN IF N = 0
       THEN [shape |-> <<L>>, d |-> [r \in 1..L |-> base + r * 10]]
       ELSE [shape |-> <<L, N>>,
             d |-> [r \in 1..L |-> [c \in 1..N |-> base + r * 10 + c]]]

\* np.unstack(values, axis=1): one 1-D array per column, in column order
Unstack(values) ==
    [c \in 1..values.shape[2] |-> [r \in 1..values.shape[1] |-> values.d[r][c]]]

----------------------------------------------------------------------------
(* read_atl03_vars                                                         *)

\* lines 48-51: the column name of a variable
VarName(var, prefix) ==
    IF prefix # <<>> THEN JoinUS(prefix, Basename(var)) ELSE Basename(var)

\* line 56: which naming a 2-D variable gets
IsSignalConf(name) == Contains(SignalConfPh, name)

\* line 57
SurfaceNames(name, surfaces) ==
    [s \in 1..Len(surfaces) |-> Suffixed(name, surfaces[s])]

\* line 59
IndexNames(name, n) == [k \in 1..n |-> Suffixed(name, Digits(k - 1))]

\* a dict: an insertion-ordered sequence of [k, v]; setting an existing key
\* keeps its place and replaces its value
DictSet(d, k, v) ==
    IF \E i \in 1..Len(d) : d[i].k = k
    THEN [i \in 1..Len(d) |-> IF d[i].k = k THEN [k |-> k, v |-> v] ELSE d[i]]
    ELSE Append(d, [k |-> k, v |-> v])

Min(a, b) == IF a <= b THEN a ELSE b
Max(a, b) == IF a >= b THEN a ELSE b

\* line 65: {k: v for k, v in zip(names, data)}; zip stops at the shorter one
RECURSIVE DictZipFrom(_, _, _, _)
DictZipFrom(names, data, i, d) ==
    IF i > Min(Len(names), Len(data)) THEN d
    ELSE DictZipFrom(names, data, i + 1, DictSet(d, names[i], data[i]))

DictZip(names, data) == DictZipFrom(names, data, 1, <<>>)

\* the KeyError of a lookup: it carries what was looked up (h5py for f[var], the
\* built-in dict for r[key])
KeyError(path) == [ok |-> FALSE, kind |-> "KeyError", args |-> <<path>>]

\* lines 47-63: the loop, from the i-th variable on, with the names and data so far
RECURSIVE ReadLoop(_, _, _, _, _, _, _)
ReadLoop(file, variables, prefix, surfaces, i, names, data) ==
    IF i > Len(variables) THEN [ok |-> TRUE, names |-> names, data |-> data]
    ELSE
      LET var == variables[i]
          name == VarName(var, prefix)
      IN IF ~HasDataset(file, var) THEN KeyError(var)
         ELSE
           LET values == Dataset(file, var) IN
           IF Len(values.shape) # 1
           THEN LET cols == Unstack(values)
                    new == IF IsSignalConf(name) THEN SurfaceNames(name, surfaces)
                           ELSE IndexNames(name, Len(cols))
                IN ReadLoop(file, variables, prefix, surfaces, i + 1,
                            names \o new, data \o cols)
           ELSE ReadLoop(file, variables, prefix, surfaces, i + 1,
                         Append(names, name), Append(data, values.d))

\* read_atl03_vars(f, variables, prefix=prefix): the dict, or the error raised
ReadAtl03Vars(file, variables, prefix, surfaces) ==
    LET r == ReadLoop(file, variables, prefix, surfaces, 1, <<>>, <<>>)
    IN IF r.ok THEN [ok |-> TRUE, dict |-> DictZip(r.names, r.data)] ELSE r

\* the paths read from the handle, in order: up to the first missing one
ReadsOf(file, variables) ==
    LET bad == {i \in 1..Len(variables) : ~HasDataset(file, variables[i])}
        n == IF bad = {} THEN Len(variables) ELSE CHOOSE i \in bad : \A j \in bad : i <= j
    IN SubSeq(variables, 1, n)

----------------------------------------------------------------------------
(* pandas: DataFrame(dict) and concat([a, b], axis=1)                      *)

NaN == 0 - 1

ValueError == [ok |-> FALSE, kind |-> "ValueError", args |-> <<>>]

\* pd.DataFrame(d): columns of one length, or "All arrays must be of the same length"
DataFrame(d) ==
    LET lens == {Len(d[i].v) : i \in 1..Len(d)}
    IN IF Cardinality(lens) > 1 THEN ValueError
       ELSE [ok |-> TRUE, cols |-> d,
             n |-> IF lens = {} THEN 0 ELSE CHOOSE l \in lens : TRUE]

\* a column on the union of the two row indexes
Reindex(col, n) == [r \in 1..n |-> IF r <= Len(col) THEN col[r] ELSE NaN]

\* pd.concat([a, b], axis=1): the columns of a, then those of b, row i beside row i
Concat(a, b) ==
    LET n == Max(a.n, b.n)
        all == a.cols \o b.cols
    IN [cols |-> [i \in 1..Len(all) |-> [k |-> all[i].k, v |-> Reindex(all[i].v, n)]],
        n |-> n]

----------------------------------------------------------------------------
(* Python values and the objects lists live in                             *)

PyNone == [kind |-> "none", b |-> FALSE, ref |-> ""]
PyBool(b) == [kind |-> "bool", b |-> b, ref |-> ""]
PyList(ref) == [kind |-> "list", b |-> FALSE, ref |-> ref]

\* bool(v): None and [] are falsy
Truthy(h, v) ==
    CASE v.kind = "none" -> FALSE
      [] v.kind = "bool" -> v.b
      [] v.kind = "list" -> h[v.ref] # <<>>

\* isinstance(v, list)
IsList(v) == v.kind = "list"

\* target += xs on a list: the object target names is extended in place
ExtendInPlace(h, target, xs) == [h EXCEPT ![target] = @ \o xs]

\* segment_variables bound to the module's geolocation list instead of a new list
SegmentListAliased == "atl03_geolocation_vars"

\* line 91: segment_variables names a new list object
SegmentList == "segment_variables"

\* line 89: photon_variables names a new list object
PhotonList == "photon_variables"

ModuleObjects ==
    {"atl03_height_vars", "atl03_geolocation_vars", "atl03_geophysical_correction_vars",
     "atl03_surfaces"}

ArgObjects ==
    {"height_variables", "geolocation_variables", "geophysical_correction_variables",
     "variables"}

Objects == ModuleObjects \cup ArgObjects \cup {"photon_variables", "segment_variables"}

\* lines 8-28
ModuleHeap ==
    [o \in Objects |->
        CASE o = "atl03_height_vars" -> HeightVars
          [] o = "atl03_geolocation_vars" -> GeolocationVars
          [] o = "atl03_geophysical_correction_vars" -> GeophysicalCorrectionVars
          [] o = "atl03_surfaces" -> Surfaces
          [] OTHER -> <<>>]

TypeError(msg) == [ok |-> FALSE, kind |-> "TypeError", args |-> <<msg>>]
OSError == [ok |-> FALSE, kind |-> "OSError", args |-> <<>>]

\* a group that takes the module list even when the caller gives a list
ResolveGroupDefaultOnly(h, v, dflt, beam, what) ==
    IF Truthy(h, v)
    THEN [raise |-> FALSE, err |-> OSError,
          h |-> ExtendInPlace(h, "segment_variables", QualifyAll(beam, h[dflt])),
          v |-> PyList(dflt)]
    ELSE [raise |-> FALSE, err |-> OSError, h |-> h, v |-> v]

\* lines 92-98 and 100-106: one optional group; v is the argument, dflt the
\* module list used for a truthy non-list
ResolveGroup(h, v, dflt, beam, what) ==
    IF Truthy(h, v)
    THEN IF IsList(v) /\ Len(h[v.ref]) = 0
         THEN [raise |-> TRUE, err |-> TypeError(<<what, "is empty list">>), h |-> h, v |-> v]
         ELSE LET w == IF IsList(v) THEN v ELSE PyList(dflt)
              IN [raise |-> FALSE, err |-> OSError,
                  h |-> ExtendInPlace(h, SegmentList, QualifyAll(beam, h[w.ref])),
                  v |-> w]
    ELSE [raise |-> FALSE, err |-> OSError, h |-> h, v |-> v]

----------------------------------------------------------------------------
(* The inputs the calls are made with                                      *)

HPh == HeightVars[1]
SignalConfVar == HeightVars[6]
PhIndexBeg == GeolocationVars[1]
DemH == GeophysicalCorrectionVars[3]

ArgNone == [kind |-> "none", b |-> FALSE, list |-> <<>>]
ArgBool(b) == [kind |-> "bool", b |-> b, list |-> <<>>]
ArgList(l) == [kind |-> "list", b |-> FALSE, list |-> l]

HeightArgs ==
    {ArgNone, ArgList(<<>>), ArgList(<<HPh>>), ArgList(<<SignalConfVar, HPh>>),
     ArgList(<<HPh, NoSuchVar>>), ArgList(<<PhIndexBeg, HPh>>)}

GeolocationArgs ==
    {ArgBool(TRUE), ArgBool(FALSE), ArgList(<<>>), ArgList(<<VelocitySc, PhIndexBeg>>)}

GeophysicalArgs ==
    {ArgBool(TRUE), ArgBool(FALSE), ArgList(<<>>), ArgList(<<DemH>>)}

ConfWidths == (MaxCols - 2)..MaxCols

Files ==
    [exists : {TRUE}, missing : {{}, {HPh}, {DemH}}, confCols : ConfWidths,
     vecCols : {3}, nPhotons : {MaxLen}, nSegments : 1..MaxLen]

NoFile ==
    [exists |-> FALSE, missing |-> {}, confCols |-> 5, vecCols |-> 3,
     nPhotons |-> 1, nSegments |-> 1]

Prefixes == {<<>>, <<"seg">>, SignalConfPh}

Gt1l == BeamSeq[1]
Gt2r == BeamSeq[2]

VariableLists ==
    {<<>>,
     <<Qualify(Gt1l, HPh)>>,
     <<Qualify(Gt1l, SignalConfVar), Qualify(Gt1l, HPh)>>,
     <<Qualify(Gt1l, HPh), Qualify(Gt1l, SignalConfVar)>>,
     <<Qualify(Gt2r, VelocitySc), Qualify(Gt1l, DemH)>>,
     <<Qualify(Gt1l, HPh), Qualify(Gt1l, NoSuchVar), Qualify(Gt1l, DemH)>>,
     <<Qualify(Gt1l, SignalConfVar), Qualify(Gt2r, VelocitySc), Qualify(Gt2r, HPh)>>}

NoCall ==
    [op |-> "", beam |-> <<>>, file |-> NoFile, prefix |-> <<>>,
     height_variables |-> ArgNone, geolocation_variables |-> ArgNone,
     geophysical_correction_variables |-> ArgNone, variables |-> <<>>,
     record |-> [absent |-> 0, polys |-> <<>>, latFirst |-> FALSE]]

NoLocals ==
    [height_variables |-> PyNone, geolocation_variables |-> PyNone,
     geophysical_correction_variables |-> PyNone]

NoTable == [cols |-> <<>>, n |-> 0]

\* what a call ends with: the value returned, or the exception raised (its class,
\* its args, and the args of the exception it was raised while handling)
NoRet == [status |-> "none", kind |-> "", args |-> <<>>, context |-> <<>>, value |-> <<>>]
Returned(value) == [NoRet EXCEPT !.status = "returned", !.value = value]
Raised(err) == [NoRet EXCEPT !.status = "raised", !.kind = err.kind, !.args = err.args]
RaisedWhileHandling(err, cause) == [Raised(err) EXCEPT !.context = cause.args]

\* the value a caller's argument is inside the function: a list is passed by reference
Passed(arg, obj) == IF arg.kind = "list" THEN PyList(obj)
                    ELSE IF arg.kind = "bool" THEN PyBool(arg.b) ELSE PyNone

IoOpen == [op |-> "open", path |-> <<>>]
IoClose == [op |-> "close", path |-> <<>>]
IoReads(paths) == [i \in 1..Len(paths) |-> [op |-> "read", path |-> paths[i]]]

----------------------------------------------------------------------------
(* atl03                                                                   *)

Init ==
    /\ heap = ModuleHeap
    /\ call = NoCall
    /\ pc = "idle"
    /\ locals = NoLocals
    /\ f = "none"
    /\ io = <<>>
    /\ df = NoTable
    /\ df_seg = NoTable
    /\ ret = NoRet
    /\ stdout = <<>>

\* a caller calls atl03(filepath, beam, height_variables, geolocation_variables,
\* geophysical_correction_variables)
Atl03Call(file, beam, hv, gv, cv) ==
    /\ pc = "idle"
    /\ call' = [NoCall EXCEPT !.op = "atl03", !.beam = beam, !.file = file,
                              !.height_variables = hv, !.geolocation_variables = gv,
                              !.geophysical_correction_variables = cv]
    /\ heap' = [heap EXCEPT !["height_variables"] = hv.list,
                            !["geolocation_variables"] = gv.list,
                            !["geophysical_correction_variables"] = cv.list,
                            !["variables"] = <<>>,
                            !["photon_variables"] = <<>>,
                            !["segment_variables"] = <<>>]
    /\ locals' = [height_variables |-> Passed(hv, "height_variables"),
                  geolocation_variables |-> Passed(gv, "geolocation_variables"),
                  geophysical_correction_variables |->
                      Passed(cv, "geophysical_correction_variables")]
    /\ pc' = "l87"
    /\ f' = "none"
    /\ io' = <<>>
    /\ df' = NoTable
    /\ df_seg' = NoTable
    /\ ret' = NoRet
    /\ stdout' = <<>>

\* lines 87-89
ResolveHeight ==
    /\ pc = "l87"
    /\ LET hv == IF locals.height_variables.kind = "none"
                 THEN PyList("atl03_height_vars") ELSE locals.height_variables
       IN /\ locals' = [locals EXCEPT !.height_variables = hv]
          /\ heap' = [heap EXCEPT ![PhotonList] = QualifyAll(call.beam, heap[hv.ref])]
    /\ pc' = "l91"
    /\ UNCHANGED <<call, f, io, df, df_seg, ret, stdout>>

\* lines 91-98
ResolveGeolocation ==
    /\ pc = "l91"
    /\ LET r == ResolveGroup([heap EXCEPT ![SegmentList] = <<>>],
                             locals.geolocation_variables, "atl03_geolocation_vars",
                             call.beam, "geolocation_variables")
       IN /\ heap' = r.h
          /\ locals' = [locals EXCEPT !.geolocation_variables = r.v]
          /\ IF r.raise THEN pc' = "done" /\ ret' = Raised(r.err)
             ELSE pc' = "l100" /\ ret' = ret
    /\ UNCHANGED <<call, f, io, df, df_seg, stdout>>

\* lines 100-106
ResolveGeophysical ==
    /\ pc = "l100"
    /\ LET r == ResolveGroup(heap, locals.geophysical_correction_variables,
                             "atl03_geophysical_correction_vars", call.beam,
                             "geophysical_correction_variables")
       IN /\ heap' = r.h
          /\ locals' = [locals EXCEPT !.geophysical_correction_variables = r.v]
          /\ IF r.raise THEN pc' = "done" /\ ret' = Raised(r.err)
             ELSE pc' = "l109" /\ ret' = ret
    /\ UNCHANGED <<call, f, io, df, df_seg, stdout>>

\* line 109: f = h5py.File(filepath)
OpenFile ==
    /\ pc = "l109"
    /\ io' = Append(io, IoOpen)
    /\ IF call.file.exists
       THEN f' = "open" /\ pc' = "l112" /\ ret' = ret
       ELSE f' = f /\ pc' = "done" /\ ret' = Raised(OSError)
    /\ UNCHANGED <<heap, call, locals, df, df_seg, stdout>>

\* line 112: df = pd.DataFrame(read_atl03_vars(f, photon_variables))
ReadPhoton ==
    /\ pc = "l112"
    /\ LET variables == heap[PhotonList]
           r == ReadAtl03Vars(call.file, variables, <<>>, heap["atl03_surfaces"])
           t == DataFrame(r.dict)
       IN /\ io' = io \o IoReads(ReadsOf(call.file, variables))
          /\ IF ~r.ok THEN pc' = "done" /\ ret' = Raised(r) /\ df' = df
             ELSE IF ~t.ok THEN pc' = "done" /\ ret' = Raised(t) /\ df' = df
             ELSE pc' = "l116" /\ ret' = ret /\ df' = [cols |-> t.cols, n |-> t.n]
    /\ UNCHANGED <<heap, call, locals, f, df_seg, stdout>>

\* line 116: df_seg = pd.DataFrame(read_atl03_vars(f, segment_variables, prefix="seg"))
ReadSegment ==
    /\ pc = "l116"
    /\ LET variables == heap[SegmentList]
           r == ReadAtl03Vars(call.file, variables, <<"seg">>, heap["atl03_surfaces"])
           t == DataFrame(r.dict)
       IN /\ io' = io \o IoReads(ReadsOf(call.file, variables))
          /\ IF ~r.ok THEN pc' = "done" /\ ret' = Raised(r) /\ df_seg' = df_seg
             ELSE IF ~t.ok THEN pc' = "done" /\ ret' = Raised(t) /\ df_seg' = df_seg
             ELSE pc' = "l118" /\ ret' = ret /\ df_seg' = [cols |-> t.cols, n |-> t.n]
    /\ UNCHANGED <<heap, call, locals, f, df, stdout>>

\* line 118: f.close()
CloseFile ==
    /\ pc = "l118"
    /\ f' = "closed"
    /\ io' = Append(io, IoClose)
    /\ pc' = "l120"
    /\ UNCHANGED <<heap, call, locals, df, df_seg, ret, stdout>>

\* line 120: return pd.concat([df, df_seg], axis=1)
Return ==
    /\ pc = "l120"
    /\ ret' = Returned(Concat(df, df_seg).cols)
    /\ pc' = "done"
    /\ UNCHANGED <<heap, call, locals, f, io, df, df_seg, stdout>>

\* a caller calls read_atl03_vars(f, variables, prefix=prefix) on a handle it holds open
ReadAtl03VarsCall(file, variables, prefix) ==
    /\ pc = "idle"
    /\ call' = [NoCall EXCEPT !.op = "read_atl03_vars", !.file = file,
                              !.variables = variables, !.prefix = prefix]
    /\ heap' = [heap EXCEPT !["variables"] = variables,
                            !["height_variables"] = <<>>,
                            !["geolocation_variables"] = <<>>,
                            !["geophysical_correction_variables"] = <<>>,
                            !["photon_variables"] = <<>>,
                            !["segment_variables"] = <<>>]
    /\ LET r == ReadAtl03Vars(file, variables, prefix, heap["atl03_surfaces"])
       IN ret' = IF r.ok THEN Returned(r.dict) ELSE Raised(r)
    /\ io' = IoReads(ReadsOf(file, variables))
    /\ f' = "open"
    /\ locals' = NoLocals
    /\ df' = NoTable
    /\ df_seg' = NoTable
    /\ stdout' = <<>>
    /\ pc' = "done"

\* the caller has the result (or the error) and drops it: the frame and the
\* caller's own lists are gone, the module's objects stay
BackToCaller ==
    /\ pc = "done"
    /\ pc' = "idle"
    /\ heap' = [o \in Objects |-> IF o \in ModuleObjects THEN heap[o] ELSE <<>>]
    /\ call' = NoCall
    /\ locals' = NoLocals
    /\ f' = "none"
    /\ io' = <<>>
    /\ df' = NoTable
    /\ df_seg' = NoTable
    /\ ret' = NoRet
    /\ stdout' = <<>>

----------------------------------------------------------------------------
(* _get_bbox (plotting.py)                                                 *)

GPolygonsPath ==
    <<"umm", "SpatialExtent", "HorizontalSpatialDomain", "Geometry", "GPolygons">>

\* a ring of m points, each the pair of its two values in the record's order
Ring(m, o) == [i \in 1..m |-> <<10 * o + i, 20 * o + m - i>>]

Rings == {Ring(m, o) : m \in 3..MaxPts, o \in 0..1}

RingLists == UNION {[1..n -> Rings] : n \in 0..MaxPolys}

\* a search result: which key of the path it lacks (0: none), its rings, and the
\* order of the two keys of a point
Records == [absent : 0..Len(GPolygonsPath), polys : RingLists, latFirst : BOOLEAN]

\* a point as the record holds it: a mapping with two keys, in order
PointMapping(pt, latFirst) ==
    IF latFirst
    THEN <<[k |-> "Latitude", v |-> pt[1]], [k |-> "Longitude", v |-> pt[2]]>>
    ELSE <<[k |-> "Longitude", v |-> pt[1]], [k |-> "Latitude", v |-> pt[2]]>>

PolygonDescriptor(ring, latFirst) ==
    [Boundary |-> [Points |-> [i \in 1..Len(ring) |-> PointMapping(ring[i], latFirst)]]]

\* the nested mapping of a record, from the i-th key of the path down
RECURSIVE Nested(_, _)
Nested(desc, i) ==
    IF i > Len(GPolygonsPath)
    THEN [k \in 1..Len(desc.polys) |-> PolygonDescriptor(desc.polys[k], desc.latFirst)]
    ELSE IF i = desc.absent THEN ("meta" :> <<>>)
    ELSE (GPolygonsPath[i] :> Nested(desc, i + 1))

\* r[k1][k2]...: the value at the end of the keys, or the KeyError of the first
\* key that is not there
RECURSIVE Navigate(_, _)
Navigate(m, keys) ==
    IF keys = <<>> THEN [ok |-> TRUE, v |-> m]
    ELSE IF Head(keys) \in DOMAIN m THEN Navigate(m[Head(keys)], Tail(keys))
    ELSE KeyError(<<Head(keys)>>)

\* line 16: KeyError()
EmptyKeyError == [ok |-> FALSE, kind |-> "KeyError", args |-> <<>>]

\* (ll["Longitude"], ll["Latitude"]): the pair by key, not by the mapping's order
PointTupleByKey(ll) ==
    <<ll[CHOOSE i \in 1..Len(ll) : ll[i].k = "Longitude"].v,
      ll[CHOOSE i \in 1..Len(ll) : ll[i].k = "Latitude"].v>>

\* tuple(ll.values())
PointTuple(ll) == [i \in 1..Len(ll) |-> ll[i].v]

\* shapely's Polygon(shell): the geometry built from the ring it is given
Polygon(shell) == [shell |-> shell]

\* lines 18-21
BboxList(gpolygon) ==
    [k \in 1..Len(gpolygon) |->
        LET points == gpolygon[k].Boundary.Points
        IN Polygon([j \in 1..Len(points) |-> PointTuple(points[j])])]

\* a caller calls _get_bbox(r)
GetBboxCall(desc) ==
    /\ pc = "idle"
    /\ call' = [NoCall EXCEPT !.op = "_get_bbox", !.record = desc]
    /\ LET g == Navigate(Nested(desc, 1), GPolygonsPath)
       IN IF g.ok
          THEN ret' = Returned(BboxList(g.v)) /\ stdout' = <<>>
          ELSE ret' = RaisedWhileHandling(EmptyKeyError, g) /\ stdout' = g.args
    /\ pc' = "done"
    /\ UNCHANGED <<heap, locals, f, io, df, df_seg>>

Next ==
    \/ \E file \in Files \cup {NoFile}, beam \in Range(BeamSeq), hv \in HeightArgs,
          gv \in GeolocationArgs, cv \in GeophysicalArgs :
            Atl03Call(file, beam, hv, gv, cv)
    \/ ResolveHeight
    \/ ResolveGeolocation
    \/ ResolveGeophysical
    \/ OpenFile
    \/ ReadPhoton
    \/ ReadSegment
    \/ CloseFile
    \/ Return
    \/ \E file \in Files, variables \in VariableLists, prefix \in Prefixes :
            ReadAtl03VarsCall(file, variables, prefix)
    \/ \E desc \in Records : GetBboxCall(desc)
    \/ BackToCaller

Spec == Init /\ [][Next]_vars

----------------------------------------------------------------------------
(* What the properties below are stated with.  None of it is used by the   *)
(* actions.                                                                *)

Ended(op) == call.op = op /\ pc = "done"

\* a path that names no dataset of the file
Absent(file, path) ==
    \A b \in Range(BeamSeq), v \in Range(KnownVars) :
        path = Qualify(b, v) => v \in file.missing

FirstAbsent(file, paths) ==
    paths[CHOOSE i \in 1..Len(paths) :
            /\ Absent(file, paths[i])
            /\ \A j \in 1..(i - 1) : ~Absent(file, paths[j])]

IsEmptyList(arg) == arg.kind = "list" /\ arg.list = <<>>

\* the group an argument asks for, in the cases the specification names
GroupAsked(arg, dflt) ==
    IF arg.kind = "list" THEN arg.list ELSE IF arg.b THEN dflt ELSE <<>>

AskedPhoton ==
    QualifyAll(call.beam, IF call.height_variables.kind = "none" THEN HeightVars
                          ELSE call.height_variables.list)

AskedSegment ==
    QualifyAll(call.beam,
               GroupAsked(call.geolocation_variables, GeolocationVars)
                   \o GroupAsked(call.geophysical_correction_variables,
                                 GeophysicalCorrectionVars))

ReadPaths == [i \in 1..Len(io) |-> io[i].path]

Keys(d) == [i \in 1..Len(d) |-> d[i].k]

StartsWith(s, p) == Len(s) >= Len(p) /\ SubSeq(s, 1, Len(p)) = p

\* the naming rule of the specification, with the confidence test on the base name
WithPrefix(prefix, name) == IF prefix = <<>> THEN name ELSE prefix \o <<US>> \o name

RuleNames(file, path, prefix) ==
    LET base == Basename(path)
        n == NCols(file, path)
    IN IF n = 0 THEN <<WithPrefix(prefix, base)>>
       ELSE IF Contains(SignalConfPh, base)
            THEN [s \in 1..Len(Surfaces) |-> WithPrefix(prefix, base \o <<US>> \o Surfaces[s])]
            ELSE [i \in 1..n |-> WithPrefix(prefix, base \o <<US, ToString(i - 1)>>)]

RECURSIVE Flatten(_)
Flatten(ss) == IF ss = <<>> THEN <<>> ELSE Head(ss) \o Flatten(Tail(ss))

RuleKeys(file, paths, prefix) ==
    Flatten([i \in 1..Len(paths) |-> RuleNames(file, paths[i], prefix)])

DistinctBasenames(paths) ==
    \A i, j \in 1..Len(paths) : i # j => Basename(paths[i]) # Basename(paths[j])

\* column i (from 0) of the array at a path
ColumnOf(file, path, i) ==
    [r \in 1..NRows(file, path) |-> CellBase(path) + r * 10 + i + 1]

----------------------------------------------------------------------------
(* The properties                                                          *)

\* C1: atl03 never ends, by return or by error, with the file handle still open.
C1_ClosedOnEveryExit == Ended("atl03") => f # "open"

\* C2: atl03 called with an empty list for geolocation_variables or for
\* geophysical_correction_variables does no file I/O and ends in a TypeError.
C2_EmptyListRejectedBeforeIO ==
    (/\ call.op = "atl03"
     /\ \/ IsEmptyList(call.geolocation_variables)
        \/ IsEmptyList(call.geophysical_correction_variables))
    => /\ io = <<>>
       /\ f = "none"
       /\ pc = "done" => (ret.status = "raised" /\ ret.kind = "TypeError")

\* C3: read_atl03_vars never returns a mapping when one of its variables is a
\* 2-dimensional signal-confidence variable whose column count is not the number
\* of surface labels.
C3_ConfidenceWidthGuarded ==
    (Ended("read_atl03_vars") /\ ret.status = "returned")
    => \A i \in 1..Len(call.variables) :
          LET path == call.variables[i]
          IN (NCols(call.file, path) # 0 /\ Contains(SignalConfPh, Basename(path)))
             => NCols(call.file, path) = Len(Surfaces)

\* C4: for paths with distinct base names, the keys of the mapping read_atl03_vars
\* returns are, in order, the names the naming rule generates for each path, the
\* confidence naming depending on the base name only.
C4_KeysFollowNamingRule ==
    (Ended("read_atl03_vars") /\ ret.status = "returned"
        /\ DistinctBasenames(call.variables))
    => Keys(ret.value) = RuleKeys(call.file, call.variables, call.prefix)

\* C5: every key of the mapping read_atl03_vars returns is bound to the data of the
\* variable and column it was generated from: the name of a 1-D variable to its
\* array, the name of column i of a 2-D variable to column i.
C5_KeysBoundToTheirColumns ==
    (Ended("read_atl03_vars") /\ ret.status = "returned")
    => \A e \in 1..Len(ret.value), i \in 1..Len(call.variables) :
         LET path == call.variables[i]
             base == Basename(path)
             n == NCols(call.file, path)
             key == ret.value[e].k
             col == ret.value[e].v
         IN /\ (n = 0 /\ key = WithPrefix(call.prefix, base))
                 => col = Dataset(call.file, path).d
            /\ \A c \in 0..MaxCols :
                 (/\ n # 0
                  /\ \/ key = WithPrefix(call.prefix, base \o <<US, ToString(c)>>)
                     \/ /\ c < Len(Surfaces)
                        /\ key = WithPrefix(call.prefix, base \o <<US>> \o Surfaces[c + 1]))
                 => (c < n /\ col = ColumnOf(call.file, path, c))

C7_ErrorNamesAbsentKey ==
    (Ended("_get_bbox") /\ call.record.absent # 0)
    => /\ ret.status = "raised"
       /\ ret.args = <<GPolygonsPath[call.record.absent]>>

\* C8: _get_bbox on a record with N polygon descriptors returns N polygons in
\* descriptor order, the k-th built from the k-th descriptor's points as pairs in
\* their order.
C8_OnePolygonPerDescriptor ==
    (Ended("_get_bbox") /\ call.record.absent = 0)
    => /\ ret.status = "returned"
       /\ Len(ret.value) = Len(call.record.polys)
       /\ \A k \in 1..Len(call.record.polys) :
             ret.value[k].shell = call.record.polys[k]

C8_Witness ==
    /\ Ended("_get_bbox")
    /\ ret.status = "returned"
    /\ Len(ret.value) = 2
    /\ call.record.latFirst
    /\ ret.value[1] # ret.value[2]

\* C9: once atl03 has resolved its arguments, the segment list is the geolocation
\* group followed by the geophysical-correction group (a group is nothing for
\* false, the caller's list for a non-empty list, the default list for true), the
\* photon list is the caller's height_variables or the default list, each name
\* qualified by the beam; the photon list is read first and without a prefix, the
\* segment list after it with the prefix "seg".
C9_VariableListsResolved ==
    (/\ call.op = "atl03"
     /\ ~IsEmptyList(call.geolocation_variables)
     /\ ~IsEmptyList(call.geophysical_correction_variables))
    => /\ pc \in {"l109", "l112", "l116", "l118", "l120"}
          => /\ heap["photon_variables"] = AskedPhoton
             /\ heap["segment_variables"] = AskedSegment
       /\ pc = "l116" => ReadPaths = <<<<>>>> \o AskedPhoton
       /\ pc \in {"l116", "l118", "l120"}
          => \A i \in 1..Len(df.cols) :
                \E p \in Range(AskedPhoton) : df.cols[i].k = Basename(p)
                    \/ StartsWith(df.cols[i].k, Basename(p) \o <<US>>)
       /\ pc \in {"l118", "l120"}
          => /\ SubSeq(ReadPaths, 1, 1 + Len(AskedPhoton) + Len(AskedSegment))
                  = <<<<>>>> \o AskedPhoton \o AskedSegment
             /\ \A i \in 1..Len(df_seg.cols) :
                   \E p \in Range(AskedSegment) :
                       StartsWith(df_seg.cols[i].k, <<"seg", US>> \o Basename(p))

C9_Witness ==
    /\ call.op = "atl03"
    /\ pc = "l118"
    /\ call.geolocation_variables = ArgList(<<VelocitySc, PhIndexBeg>>)
    /\ call.geophysical_correction_variables = ArgBool(TRUE)
    /\ call.height_variables = ArgNone
    /\ Len(df_seg.cols) = 7

\* C10: whatever calls were made and however they ended, the module's lists are as
\* the module defines them and the caller's lists are as the caller passed them, so
\* a call with default arguments asks for the default paths.
C10_ListsNeverModified ==
    /\ \A o \in ModuleObjects : heap[o] = ModuleHeap[o]
    /\ call.op = "atl03"
       => /\ heap["height_variables"] = call.height_variables.list
          /\ heap["geolocation_variables"] = call.geolocation_variables.list
          /\ heap["geophysical_correction_variables"]
                = call.geophysical_correction_variables.list
    /\ call.op = "read_atl03_vars" => heap["variables"] = call.variables
    /\ (/\ call.op = "atl03"
        /\ pc = "l109"
        /\ call.height_variables = ArgNone
        /\ call.geolocation_variables = ArgBool(TRUE)
        /\ call.geophysical_correction_variables = ArgBool(TRUE))
       => /\ heap["photon_variables"] = QualifyAll(call.beam, HeightVars)
          /\ heap["segment_variables"]
                = QualifyAll(call.beam, GeolocationVars \o GeophysicalCorrectionVars)

C10_Witness ==
    /\ Ended("atl03")
    /\ ret.status = "raised"
    /\ call.geolocation_variables = ArgList(<<VelocitySc, PhIndexBeg>>)
    /\ call.geophysical_correction_variables = ArgBool(TRUE)
    /\ heap["segment_variables"] # <<>>

============================================================================
